---- MODULE Spec2Model ----
(***************************************************************************)
(* Authentication token lifecycle, double-submit CSRF guard and the auth   *)
(* HTTP handlers of the Fastify API server template.                       *)
(*                                                                         *)
(* Time is counted in minutes.  A signed JWT is modelled by its claims and *)
(* by the secret its HMAC was computed with: a verifier accepts a token    *)
(* iff the token's signing secret equals the verifier's secret and the     *)
(* token is not expired.                                                   *)
(***************************************************************************)
EXTENDS Integers, Sequences, FiniteSets, TLC

VARIABLES
    env,          \* validated process environment (env.ts)
    csrfEnabled,  \* env.ENABLE_CSRF && NODE_ENV !== 'test' when the server was built
    clock,        \* wall clock, minutes
    users,        \* rows of template_api_users
    nextId,       \* next identifier uuidv7() hands out
    csrfSeq,      \* number of CSRF tokens drawn from randomBytes so far
    jar,          \* the client's cookie jar
    kept,         \* a token the client saved, the signer that minted it, and
                  \* whether it was already redeemed or logged out
    calls,        \* register calls in flight, one frame per concurrent request
    vres,         \* outcome of the last sign / verify call on the jwt plugin
    svc,          \* frame of the last auth service call that ended
    req,          \* last HTTP request received
    resp,         \* reply to it
    todos,        \* rows of template_api_todos
    nextTodo,     \* next todo identifier uuidv7() hands out
    redis,        \* keys held by the Redis server, with their TTL
    cacheKind,    \* which app.cache the redis plugin decorated: "redis" or "noop"
    tcalls,       \* todo repository / cache calls in flight, one frame per caller
    tres,         \* frame of the last todo repository / cache call that ended
    tx            \* the withTransaction call in progress or just ended

authVars == <<env, csrfEnabled, clock, users, nextId, csrfSeq, jar, kept, calls, vres, svc, req, resp>>

todoVars == <<todos, nextTodo, redis, cacheKind, tcalls, tres>>

txVars == <<tx>>

vars == <<authVars, todoVars, txVars>>

----------------------------------------------------------------------------
(* Bounds *)

\* number of clock advances explored
MaxTicks == 1
\* number of rows ever inserted into template_api_users
MaxUsers == 2
\* number of CSRF tokens ever generated
MaxCsrf == 3

----------------------------------------------------------------------------
(* env.ts *)

MinSecretLen == 32
ACCESS_TOKEN_TTL == 15
REFRESH_TOKEN_TTL == 10080

\* candidate values of the two secret environment variables
AccessSecretValues == {"k1", "short"}
RefreshSecretValues == {"k1", "k2", "short"}

SecretLen(s) == IF s = "short" THEN 8 ELSE 32

\* z.object({ JWT_ACCESS_SECRET: z.string().min(32),
\*            JWT_REFRESH_SECRET: z.string().min(32), ... })
envSchema(e) ==
    /\ SecretLen(e.JWT_ACCESS_SECRET) >= MinSecretLen
    /\ SecretLen(e.JWT_REFRESH_SECRET) >= MinSecretLen

\* the environments with which the process does not exit(1) at start-up
ValidEnvs ==
    { e \in [JWT_ACCESS_SECRET : AccessSecretValues,
             JWT_REFRESH_SECRET : RefreshSecretValues] :
        envSchema(e) }

----------------------------------------------------------------------------
(* plugins/jwt.ts *)

UserIds == 1..3
EmailValues == {"a@x", "b@x"}

NoToken == [fmt |-> "absent", key |-> "", sub |-> 0, email |-> "", iat |-> 0, exp |-> 0]
Garbage == [fmt |-> "garbage", key |-> "", sub |-> 0, email |-> "", iat |-> 0, exp |-> 0]

Jwt(key, payload, ttl) ==
    [fmt |-> "jwt", key |-> key, sub |-> payload.sub, email |-> payload.email,
     iat |-> clock, exp |-> clock + ttl]

\* app.jwt.sign(payload, { expiresIn: env.ACCESS_TOKEN_TTL })
signAccessToken(payload) == Jwt(env.JWT_ACCESS_SECRET, payload, ACCESS_TOKEN_TTL)

\* jsonwebtoken.sign(payload, env.JWT_REFRESH_SECRET, { expiresIn: env.REFRESH_TOKEN_TTL })
signRefreshToken(payload) == Jwt(env.JWT_REFRESH_SECRET, payload, REFRESH_TOKEN_TTL)

Verified(payload) == [ok |-> TRUE, sub |-> payload.sub, email |-> payload.email,
                      err |-> "", msg |-> ""]
Rejected(kind, message) == [ok |-> FALSE, sub |-> 0, email |-> "", err |-> kind, msg |-> message]

\* jsonwebtoken.verify(token, env.JWT_REFRESH_SECRET); any failure becomes
\* UnauthorizedError('Invalid refresh token')
verifyRefreshToken(token) ==
    IF token.fmt = "jwt" /\ token.key = env.JWT_REFRESH_SECRET /\ clock < token.exp
    THEN Verified(token)
    ELSE Rejected("UnauthorizedError", "Invalid refresh token")

\* authenticate: request.jwtVerify() with the access secret; any failure
\* becomes UnauthorizedError() with the default message
authenticateIgnoringExp(token) ==
    IF token.fmt = "jwt" /\ token.key = env.JWT_ACCESS_SECRET
    THEN Verified(token)
    ELSE Rejected("UnauthorizedError", "Unauthorized")

authenticate(token) ==
    IF token.fmt = "jwt" /\ token.key = env.JWT_ACCESS_SECRET /\ clock <= token.exp
    THEN Verified(token)
    ELSE Rejected("UnauthorizedError", "Unauthorized")

----------------------------------------------------------------------------
(* utils/password.ts *)

Salts == {"s1"}
Passwords == {"pw1", "pw2"}

NoHash == [alg |-> "none", cost |-> 0, salt |-> "", digestOf |-> ""]

\* bcrypt.hash(password, salt) with salt = bcrypt.genSalt(10); digestOf names
\* the preimage of the one-way digest
hashPassword(password, salt) ==
    [alg |-> "bcrypt", cost |-> 10, salt |-> salt, digestOf |-> password]

\* bcrypt.compare: re-hash under the stored salt and cost, compare digests
comparePassword(password, hashedPassword) ==
    /\ hashedPassword.alg = "bcrypt"
    /\ hashPassword(password, hashedPassword.salt) = hashedPassword

----------------------------------------------------------------------------
(* repositories/userRepository.ts over template_api_users *)

UserNames == {"al", "a@x"}

NoUser == [id |-> 0, user_name |-> "", email |-> "", password |-> NoHash]

PickUser(rows) == IF rows = {} THEN NoUser ELSE CHOOSE r \in rows : TRUE

getById(table, id) == PickUser({r \in table : r.id = id})
getByEmail(table, email) == PickUser({r \in table : r.email = email})
getByUserName(table, userName) == PickUser({r \in table : r.user_name = userName})

\* UNIQUE(user_name), UNIQUE(email), PRIMARY KEY(id)
UniqueViolation(table, row) ==
    \E r \in table : r.id = row.id \/ r.email = row.email \/ r.user_name = row.user_name

----------------------------------------------------------------------------
(* services/authService.ts *)

NoArg == [user_name |-> "", email |-> "", password |-> "", salt |-> "",
          identifier |-> "", userId |-> 0, token |-> NoToken]

\* a call of an auth service method: its position, its locals, what it has
\* done so far and how it ended
Frame(op, arg) ==
    [op |-> op, arg |-> arg, pc |-> "start", err |-> "", msg |-> "",
     lookups |-> 0, hashes |-> 0, creates |-> 0, signs |-> 0,
     hashed |-> NoHash, user |-> NoUser,
     accessToken |-> NoToken, refreshToken |-> NoToken]

NoFrame == [Frame("none", NoArg) EXCEPT !.pc = "idle"]

Throw(f, kind, message) == [f EXCEPT !.pc = "failed", !.err = kind, !.msg = message]

\* const payload = { sub: user.id, email: user.email }; sign both; return
IssuePair(f, user) ==
    LET payload == [sub |-> user.id, email |-> user.email]
    IN [f EXCEPT !.pc = "done", !.user = user, !.signs = f.signs + 2,
                 !.accessToken = signAccessToken(payload),
                 !.refreshToken = signRefreshToken(payload)]

Ended(f) == f.pc \in {"done", "failed"}

\* return { accessToken, refreshToken, user } of a call that ended in f
TokenPairResult(f) ==
    [accessToken |-> f.accessToken, refreshToken |-> f.refreshToken, user |-> f.user]

\* one await-to-await step of register against the table; db = [users, nextId]
registerStepUsernameFirst(f, db) ==
    CASE f.pc = "start" ->
            [f |-> IF getByUserName(db.users, f.arg.user_name) # NoUser
                   THEN Throw([f EXCEPT !.lookups = f.lookups + 1],
                              "ValidationError", "Username already exists")
                   ELSE [f EXCEPT !.pc = "checkUserName", !.lookups = f.lookups + 1],
             db |-> db]
      [] f.pc = "checkUserName" ->
            [f |-> IF getByEmail(db.users, f.arg.email) # NoUser
                   THEN Throw([f EXCEPT !.lookups = f.lookups + 1],
                              "ValidationError", "Email already exists")
                   ELSE [f EXCEPT !.pc = "hash", !.lookups = f.lookups + 1],
             db |-> db]
      [] f.pc = "hash" ->
            [f |-> [f EXCEPT !.pc = "create", !.hashes = f.hashes + 1,
                             !.hashed = hashPassword(f.arg.password, f.arg.salt)],
             db |-> db]
      [] f.pc = "create" ->
            LET row == [id |-> db.nextId, user_name |-> f.arg.user_name,
                        email |-> f.arg.email, password |-> f.hashed]
            IN IF UniqueViolation(db.users, row)
               THEN [f |-> Throw(f, "DatabaseError", "23505 unique_violation"), db |-> db]
               ELSE [f |-> [f EXCEPT !.pc = "sign", !.creates = f.creates + 1, !.user = row],
                     db |-> [users |-> db.users \cup {row}, nextId |-> db.nextId + 1]]
      [] f.pc = "sign" -> [f |-> IssuePair(f, f.user), db |-> db]
      [] OTHER -> [f |-> f, db |-> db]

registerStep(f, db) ==
    CASE f.pc = "start" ->
            \* existingUserByEmail = await deps.getUserByEmail(data.email)
            [f |-> IF getByEmail(db.users, f.arg.email) # NoUser
                   THEN Throw([f EXCEPT !.lookups = f.lookups + 1],
                              "ValidationError", "Email already exists")
                   ELSE [f EXCEPT !.pc = "checkUserName", !.lookups = f.lookups + 1],
             db |-> db]
      [] f.pc = "checkUserName" ->
            \* existingUserByUserName = await deps.getUserByUserName(data.user_name)
            [f |-> IF getByUserName(db.users, f.arg.user_name) # NoUser
                   THEN Throw([f EXCEPT !.lookups = f.lookups + 1],
                              "ValidationError", "Username already exists")
                   ELSE [f EXCEPT !.pc = "hash", !.lookups = f.lookups + 1],
             db |-> db]
      [] f.pc = "hash" ->
            \* hashedPassword = await hashPassword(data.password)
            [f |-> [f EXCEPT !.pc = "create", !.hashes = f.hashes + 1,
                             !.hashed = hashPassword(f.arg.password, f.arg.salt)],
             db |-> db]
      [] f.pc = "create" ->
            \* user = await deps.createUser(...): INSERT ... RETURNING, id = uuidv7()
            LET row == [id |-> db.nextId, user_name |-> f.arg.user_name,
                        email |-> f.arg.email, password |-> f.hashed]
            IN IF UniqueViolation(db.users, row)
               THEN [f |-> Throw(f, "DatabaseError", "23505 unique_violation"), db |-> db]
               ELSE [f |-> [f EXCEPT !.pc = "sign", !.creates = f.creates + 1, !.user = row],
                     db |-> [users |-> db.users \cup {row}, nextId |-> db.nextId + 1]]
      [] f.pc = "sign" -> [f |-> IssuePair(f, f.user), db |-> db]
      [] OTHER -> [f |-> f, db |-> db]

RECURSIVE RunRegister(_, _)
\* register run from f to its end with no other request interleaved
RunRegister(f, db) ==
    IF Ended(f) THEN [f |-> f, db |-> db]
    ELSE LET s == registerStep(f, db) IN RunRegister(s.f, s.db)

register(data, db) == RunRegister(Frame("register", data), db)

loginNamesMissingUser(identifier, password, table) ==
    LET f0 == Frame("login", [NoArg EXCEPT !.identifier = identifier, !.password = password])
        byEmail == getByEmail(table, identifier)
        user == IF byEmail # NoUser THEN byEmail ELSE getByUserName(table, identifier)
        f1 == [f0 EXCEPT !.lookups = IF byEmail # NoUser THEN 1 ELSE 2]
    IN IF user = NoUser THEN Throw(f1, "NotFoundError", "User not found")
       ELSE IF ~comparePassword(password, user.password)
            THEN Throw(f1, "UnauthorizedError", "Invalid credentials")
            ELSE IssuePair(f1, user)

login(identifier, password, table) ==
    LET f0 == Frame("login", [NoArg EXCEPT !.identifier = identifier, !.password = password])
        byEmail == getByEmail(table, identifier)
        user == IF byEmail # NoUser THEN byEmail ELSE getByUserName(table, identifier)
        f1 == [f0 EXCEPT !.lookups = IF byEmail # NoUser THEN 1 ELSE 2]
    IN IF user = NoUser THEN Throw(f1, "UnauthorizedError", "Invalid credentials")
       ELSE IF ~comparePassword(password, user.password)
            THEN Throw(f1, "UnauthorizedError", "Invalid credentials")
            ELSE IssuePair(f1, user)

issueTokensNoLookup(userId, table) ==
    IssuePair(Frame("issueTokens", [NoArg EXCEPT !.userId = userId]),
              [NoUser EXCEPT !.id = userId])

issueTokens(userId, table) ==
    LET f0 == Frame("issueTokens", [NoArg EXCEPT !.userId = userId])
        user == getById(table, userId)
        f1 == [f0 EXCEPT !.lookups = 1]
    IN IF user = NoUser THEN Throw(f1, "NotFoundError", "User not found")
       ELSE IssuePair(f1, user)

refreshTokensMaskNotFound(refreshToken, table) ==
    LET f0 == Frame("refreshTokens", [NoArg EXCEPT !.token = refreshToken])
        payload == verifyRefreshToken(refreshToken)
        user == getById(table, payload.sub)
        f1 == [f0 EXCEPT !.lookups = 1]
    IN IF ~payload.ok THEN Throw(f0, "UnauthorizedError", "Invalid refresh token")
       ELSE IF user = NoUser THEN Throw(f1, "UnauthorizedError", "Invalid refresh token")
            ELSE IssuePair(f1, user)

refreshTokensSingleUse(refreshToken, table) ==
    LET f0 == Frame("refreshTokens", [NoArg EXCEPT !.token = refreshToken])
        payload == verifyRefreshToken(refreshToken)
        user == getById(table, payload.sub)
        f1 == [f0 EXCEPT !.lookups = 1]
    IN IF ~payload.ok \/ (refreshToken = kept.jwt /\ kept.spent)
       THEN Throw(f0, "UnauthorizedError", "Invalid refresh token")
       ELSE IF user = NoUser THEN Throw(f1, "NotFoundError", "User not found")
            ELSE IssuePair(f1, user)

refreshTokens(refreshToken, table) ==
    LET f0 == Frame("refreshTokens", [NoArg EXCEPT !.token = refreshToken])
        \* payload = await app.verifyRefreshToken(refreshToken)
        payload == verifyRefreshToken(refreshToken)
        \* user = await deps.getUserById(String(payload.sub))
        user == getById(table, payload.sub)
        f1 == [f0 EXCEPT !.lookups = 1]
    IN IF ~payload.ok THEN Throw(f0, "UnauthorizedError", "Invalid refresh token")
       ELSE IF user = NoUser THEN Throw(f1, "NotFoundError", "User not found")
            ELSE IssuePair(f1, user)

\* refreshTokens when an awaited dependency rejects: faults names the calls
\* that do, "lookup" for deps.getUserById and "sign" for app.signAccessToken.
\* The whole body stands in one try block whose catch rethrows a
\* NotFoundError and turns every other error into UnauthorizedError.
refreshTokensUnder(refreshToken, table, faults) ==
    LET f0 == Frame("refreshTokens", [NoArg EXCEPT !.token = refreshToken])
        payload == verifyRefreshToken(refreshToken)
        user == getById(table, payload.sub)
        f1 == [f0 EXCEPT !.lookups = 1]
    IN IF ~payload.ok THEN Throw(f0, "UnauthorizedError", "Invalid refresh token")
       ELSE IF "lookup" \in faults
            THEN Throw(f1, "UnauthorizedError", "Invalid refresh token")
       ELSE IF user = NoUser THEN Throw(f1, "NotFoundError", "User not found")
       ELSE IF "sign" \in faults
            THEN Throw(f1, "UnauthorizedError", "Invalid refresh token")
       ELSE IssuePair(f1, user)

----------------------------------------------------------------------------
(* middlewares/csrf.middleware.ts, utils/tokens.ts *)

\* strings are sequences of character codes; Undefined is the absent value
Undefined == <<-1>>
Falsy(v) == v = Undefined \/ v = <<>>

RECURSIVE BitXor(_, _)
BitXor(a, b) ==
    IF a = 0 /\ b = 0 THEN 0
    ELSE (((a % 2) + (b % 2)) % 2) + 2 * BitXor(a \div 2, b \div 2)

RECURSIVE BitOr(_, _)
BitOr(a, b) ==
    IF a = 0 /\ b = 0 THEN 0
    ELSE (IF (a % 2) = 1 \/ (b % 2) = 1 THEN 1 ELSE 0) + 2 * BitOr(a \div 2, b \div 2)

RECURSIVE XorAccumulate(_, _, _, _)
\* for (i = 0; i < a.length; i++) result |= a.charCodeAt(i) ^ b.charCodeAt(i)
XorAccumulate(a, b, i, result) ==
    IF i > Len(a) THEN result
    ELSE XorAccumulate(a, b, i + 1, BitOr(result, BitXor(a[i], b[i])))

\* a comparison of the lengths alone
constantTimeEqualsLengthOnly(a, b) == Len(a) = Len(b)

constantTimeEquals(a, b) ==
    IF Len(a) # Len(b) THEN FALSE
    ELSE XorAccumulate(a, b, 1, 0) = 0

RECURSIVE Iterations(_, _, _, _)
\* the passes of the for loop: it has no break and no return in its body
Iterations(a, b, i, n) ==
    IF i > Len(a) THEN n ELSE Iterations(a, b, i + 1, n + 1)

\* how many positions a call of constantTimeEquals reads
inspected(a, b) == IF Len(a) # Len(b) THEN 0 ELSE Iterations(a, b, 1, 0)

\* randomBytes(32).toString('base64url'): the n-th draw of the generator
generateCSRFToken(n) == <<64 + n>>

safeMethods == {"GET", "HEAD", "OPTIONS"}

\* request.url.startsWith(prefix), tabulated for the URLs of the model
Urls == {"/health", "/healthz", "/docs/json", "/internal/metrics",
         "/v1/auth/register", "/v1/auth/login", "/v1/auth/logout",
         "/v1/auth/token", "/v1/auth/refresh", "/v1/auth/me", "/v1/todos"}

startsWith(url, prefix) ==
    \/ prefix = "/health" /\ url \in {"/health", "/healthz"}
    \/ prefix = "/docs" /\ url = "/docs/json"
    \/ prefix = "/internal" /\ url = "/internal/metrics"

NoCookies == [parsed |-> FALSE, access_token |-> NoToken, refresh_token |-> NoToken,
              csrf_token |-> Undefined]

NoHeaders == [xCsrfToken |-> Undefined, csrfToken |-> Undefined, xXsrfToken |-> Undefined]

\* request.cookies?.csrf_token
csrfTokenFromCookie(r) == IF r.cookies.parsed THEN r.cookies.csrf_token ELSE Undefined

\* headers['x-csrf-token'] || headers['csrf-token'] || headers['x-xsrf-token']
csrfTokenFromHeader(r) ==
    IF ~Falsy(r.headers.xCsrfToken) THEN r.headers.xCsrfToken
    ELSE IF ~Falsy(r.headers.csrfToken) THEN r.headers.csrfToken
    ELSE r.headers.xXsrfToken

Pass == [err |-> "", msg |-> ""]

\* the onRequest hook setupCSRFProtection installs
csrfHook(r) ==
    IF r.method \in safeMethods THEN Pass
    ELSE IF startsWith(r.url, "/health") \/ startsWith(r.url, "/docs")
            \/ startsWith(r.url, "/internal") THEN Pass
    ELSE IF Falsy(csrfTokenFromCookie(r)) \/ Falsy(csrfTokenFromHeader(r))
         THEN [err |-> "UnauthorizedError", msg |-> "CSRF token required"]
    ELSE IF ~constantTimeEquals(csrfTokenFromCookie(r), csrfTokenFromHeader(r))
         THEN [err |-> "UnauthorizedError", msg |-> "Invalid CSRF token"]
    ELSE Pass

----------------------------------------------------------------------------
(* server.ts: buildServer *)

\* onRequest hooks in the order buildServer adds them to the root instance:
\* setupCSRFProtection(app) adds its hook, later app.register(cookie) adds
\* the hook that parses the Cookie header into request.cookies
onRequestHooks(enabled) == IF enabled THEN <<"csrf", "cookie">> ELSE <<"cookie">>

\* @fastify/cookie: request.cookies is null until its hook has run
cookieHook(r) ==
    [r EXCEPT !.cookies = [parsed |-> TRUE,
                           access_token |-> r.cookieHeader.access_token,
                           refresh_token |-> r.cookieHeader.refresh_token,
                           csrf_token |-> r.cookieHeader.csrf_token]]

RECURSIVE runHooks(_, _)
\* Fastify runs the hooks of one instance in the order they were added and
\* stops at the first that throws
runHooks(hooks, r) ==
    IF hooks = <<>> THEN [r |-> r, out |-> Pass]
    ELSE IF Head(hooks) = "cookie" THEN runHooks(Tail(hooks), cookieHook(r))
    ELSE LET out == csrfHook(r)
         IN IF out.err # "" THEN [r |-> r, out |-> out]
            ELSE runHooks(Tail(hooks), r)

onRequest(r) == runHooks(onRequestHooks(csrfEnabled), r)

----------------------------------------------------------------------------
(* utils/errors.ts, utils/errorHandler.ts *)

statusCode(kind) ==
    CASE kind = "NotFoundError" -> 404
      [] kind = "ValidationError" -> 400
      [] kind = "UnauthorizedError" -> 401
      [] OTHER -> 500

NoReply == [status |-> 0, message |-> "", by |-> "none", userSub |-> 0,
            accessToken |-> NoToken, refreshToken |-> NoToken,
            setAccess |-> NoToken, setRefresh |-> NoToken,
            setCsrf |-> Undefined, csrfHttpOnly |-> TRUE, authHttpOnly |-> TRUE,
            cleared |-> {}]

\* setErrorHandler: AppError -> reply.code(error.statusCode).send({ message })
errorReply(kind, message, by) ==
    [NoReply EXCEPT !.status = statusCode(kind),
                    !.message = IF statusCode(kind) = 500 THEN "Internal server error"
                                ELSE message,
                    !.by = by]

----------------------------------------------------------------------------
(* controllers/authController.ts *)

setAuthCookiesNoCsrf(reply, accessToken, refreshToken, n) ==
    [reply EXCEPT !.setAccess = accessToken, !.setRefresh = refreshToken,
                  !.authHttpOnly = TRUE]

\* setCookie('access_token'), setCookie('refresh_token'), then
\* setCSRFToken(reply, generateCSRFToken()) with httpOnly: false
setAuthCookies(reply, accessToken, refreshToken, n) ==
    [reply EXCEPT !.setAccess = accessToken, !.setRefresh = refreshToken,
                  !.authHttpOnly = TRUE,
                  !.setCsrf = generateCSRFToken(n), !.csrfHttpOnly = FALSE]

\* reply of registerHandler / loginHandler / issueTokenHandler / refreshHandler
\* for a service call that ended in frame f
tokenReply(f, okStatus, n) ==
    IF f.pc = "failed" THEN errorReply(f.err, f.msg, "handler")
    ELSE setAuthCookies([NoReply EXCEPT !.status = okStatus, !.by = "handler",
                                        !.accessToken = f.accessToken,
                                        !.refreshToken = f.refreshToken],
                        f.accessToken, f.refreshToken, n)

\* logoutHandler: clearCookie('csrf_token'), clearAuthCookies(reply)
logoutReply ==
    [NoReply EXCEPT !.status = 200, !.message = "Logged out successfully",
                    !.by = "handler",
                    !.cleared = {"csrf_token", "access_token", "refresh_token"}]

----------------------------------------------------------------------------
(* the client: a browser applying Set-Cookie to its jar *)

EmptyJar == [access_token |-> NoToken, refresh_token |-> NoToken, csrf_token |-> Undefined]

applyCookies(j, reply) ==
    [access_token |-> IF reply.setAccess # NoToken THEN reply.setAccess
                      ELSE IF "access_token" \in reply.cleared THEN NoToken
                      ELSE j.access_token,
     refresh_token |-> IF reply.setRefresh # NoToken THEN reply.setRefresh
                       ELSE IF "refresh_token" \in reply.cleared THEN NoToken
                       ELSE j.refresh_token,
     csrf_token |-> IF reply.setCsrf # Undefined THEN reply.setCsrf
                    ELSE IF "csrf_token" \in reply.cleared THEN Undefined
                    ELSE j.csrf_token]

\* what is remembered of a served request: the request line, the CSRF cookie
\* and headers, the body token
logged(r) ==
    [r EXCEPT !.cookieHeader = [EmptyJar EXCEPT !.csrf_token = r.cookieHeader.csrf_token],
              !.cookies = [NoCookies EXCEPT !.parsed = r.cookies.parsed,
                                            !.csrf_token = r.cookies.csrf_token]]

NoRequest == [method |-> "", url |-> "", cookieHeader |-> EmptyJar, cookies |-> NoCookies,
              headers |-> NoHeaders, body |-> NoToken, reused |-> FALSE]

\* the request a browser holding jar j sends; echo: its script copies the
\* csrf_token cookie into the x-csrf-token header
clientRequest(method, url, j, echo, body) ==
    [method |-> method, url |-> url, cookieHeader |-> j, cookies |-> NoCookies,
     headers |-> [NoHeaders EXCEPT !.xCsrfToken = IF echo THEN j.csrf_token ELSE Undefined],
     body |-> body, reused |-> FALSE]

----------------------------------------------------------------------------
(* JavaScript values handed between the todo repository and the cache *)

Null == [type |-> "null"]

\* a Date object, and the ISO string JSON.stringify writes for it
DateOf(ms) == [type |-> "Date", ms |-> ms]
IsoOf(ms) == [type |-> "string", iso |-> ms]

Bool(b) == [type |-> "boolean", v |-> b]
Num(n) == [type |-> "number", v |-> n]

\* JSON.parse(JSON.stringify(v)): a Date comes back as its ISO string
jsonRoundTrip(v) ==
    IF v.type = "Date" THEN IsoOf(v.ms)
    ELSE IF v.type = "object"
         THEN [v EXCEPT !.created_at = IF @.type = "Date" THEN IsoOf(@.ms) ELSE @,
                        !.updated_at = IF @.type = "Date" THEN IsoOf(@.ms) ELSE @]
    ELSE v

----------------------------------------------------------------------------
(* dto/todo.dto.ts *)

toTodoResponseDTO(todo) ==
    [todo EXCEPT !.created_at = IF @.type = "string" THEN @ ELSE IsoOf(@.ms),
                 !.updated_at = IF @.type = "string" THEN @ ELSE IsoOf(@.ms)]

----------------------------------------------------------------------------
(* plugins/redis.ts: the cache facade over the Redis client *)

MaxTodos == 2

DefaultTtl == 3600

TodoOwners == {1, 2}
\* the ids uuidv7() hands out, and 0 for an id it never handed out
TodoIds == 0..MaxTodos

\* `todo:${userId}:${id}`, kept as its colon-separated segments
cacheKey(userId, id) == <<"todo", userId, id>>

\* `todo:${userId}:*`
listPattern(userId) == <<"todo", userId>>

CacheKeys == {cacheKey(u, i) : u \in TodoOwners, i \in TodoIds}

\* a match of every key, whatever the pattern
matchesEveryKey(key, pattern) == TRUE

\* Redis glob match of a key against prefix:*
matches(key, pattern) == SubSeq(key, 1, Len(pattern)) = pattern

NoEntry == [held |-> FALSE, json |-> Null, ttl |-> 0]

EmptyStore == [k \in CacheKeys |-> NoEntry]

\* cacheService.get; failed: the Redis call rejects
cacheGetMiss(kind, store, key, failed) == Null

cacheGet(kind, store, key, failed) ==
    IF kind = "noop" \/ failed THEN Null
    ELSE IF ~store[key].held THEN Null
    ELSE store[key].json

\* a set that leaves null out of the store
cacheSetSkipNull(kind, store, key, value, ttlSeconds, failed) ==
    IF kind = "noop" \/ failed \/ value = Null THEN store
    ELSE [store EXCEPT ![key] = [held |-> TRUE, json |-> jsonRoundTrip(value),
                                 ttl |-> IF ttlSeconds # 0 THEN ttlSeconds ELSE DefaultTtl]]

\* cacheService.set: SETEX key ttl JSON.stringify(value)
cacheSet(kind, store, key, value, ttlSeconds, failed) ==
    IF kind = "noop" \/ failed THEN store
    ELSE [store EXCEPT ![key] = [held |-> TRUE, json |-> jsonRoundTrip(value),
                                 ttl |-> IF ttlSeconds # 0 THEN ttlSeconds ELSE DefaultTtl]]

\* cacheService.del
cacheDel(kind, store, keys, failed) ==
    IF kind = "noop" \/ failed THEN store
    ELSE [k \in CacheKeys |-> IF k \in keys THEN NoEntry ELSE store[k]]

scanKeysNone(store, pattern) == {}

\* the keys scanStream({match: pattern}) reports
scanKeys(store, pattern) == {k \in CacheKeys : store[k].held /\ matches(k, pattern)}

----------------------------------------------------------------------------
(* repositories/todoRepository.ts over db/schema/todos *)

Titles == {"t1", "t2"}

NotSet == "undefined"

\* the row without user_id
toResponse(row) ==
    [type |-> "object", id |-> row.id, title |-> row.title, completed |-> row.completed,
     created_at |-> DateOf(row.createdAt), updated_at |-> DateOf(row.updatedAt)]

ownedRowsAnyUser(table, id, userId) == {t \in table : t.id = id}

\* where id = $1 and user_id = $2
ownedRows(table, id, userId) == {t \in table : t.id = id /\ t.userId = userId}

NoData == [title |-> NotSet, completed |-> NotSet]

NoTodoArg == [id |-> 0, userId |-> 0, data |-> NoData, key |-> <<>>, value |-> Null,
              ttl |-> 0, limit |-> 0, cursor |-> 0]

\* one call of a repository or cache method: where it stands, which of its
\* database / Redis calls will reject, what it has done so far
TodoFrame(op, arg, faults) ==
    [op |-> op, arg |-> arg, pc |-> "start", faults |-> faults,
     cached |-> Null, value |-> Null, keys |-> {}, result |-> Null, err |-> "",
     fetches |-> 0, mutated |-> FALSE, removed |-> {}, stored |-> FALSE,
     alone |-> FALSE]

NoTodoFrame == [TodoFrame("none", NoTodoArg, {}) EXCEPT !.pc = "idle"]

TodoEnded(f) == f.pc \in {"done", "failed", "hung"}

\* the database and the cache the repository was built over
Backend(table, next, store, kind) ==
    [todos |-> table, nextTodo |-> next, redis |-> store, kind |-> kind]

End(f, result) == [f EXCEPT !.pc = "done", !.result = result]

Fail(f, kind) == [f EXCEPT !.pc = "failed", !.err = kind]

\* invalidate-then-write: update and delete begin at their cache invalidation
firstPcInvalidateFirst(op, kind) ==
    CASE op \in {"getById", "getOrSet"} -> IF kind = "noop" THEN "compute" ELSE "get"
      [] op = "get" -> "get"
      [] op = "set" -> "set"
      [] op \in {"del", "update", "delete"} -> "del"
      [] op = "delPattern" -> "scan"
      [] op = "create" -> "insert"
      [] OTHER -> "select"

\* the first await of each method
firstPc(op, kind) ==
    CASE op \in {"getById", "getOrSet"} -> IF kind = "noop" THEN "compute" ELSE "get"
      [] op = "get" -> "get"
      [] op = "set" -> "set"
      [] op = "del" -> "del"
      [] op = "delPattern" -> "scan"
      [] op = "create" -> "insert"
      [] op = "update" -> "update"
      [] op = "delete" -> "delete"
      [] OTHER -> "select"

RECURSIVE SortedDesc(_)
\* order by created_at desc
SortedDesc(rows) ==
    IF rows = {} THEN <<>>
    ELSE LET top == CHOOSE r \in rows : \A o \in rows : o.createdAt <= r.createdAt
         IN <<top>> \o SortedDesc(rows \ {top})

\* getAll: one page of the user's todos
getAll(table, userId, limitArg, cursor) ==
    LET limit == IF limitArg = 0 THEN 20 ELSE limitArg
        rows == {t \in table : t.userId = userId /\ (cursor = 0 \/ t.id < cursor)}
        sorted == SortedDesc(rows)
        fetched == SubSeq(sorted, 1, IF Len(sorted) < limit + 1 THEN Len(sorted) ELSE limit + 1)
        hasMore == Len(fetched) > limit
        items == IF hasMore THEN SubSeq(fetched, 1, limit) ELSE fetched
    IN [type |-> "page",
        items |-> [i \in 1..Len(items) |-> toResponse(items[i])],
        nextCursor |-> IF hasMore THEN items[Len(items)].id ELSE 0,
        hasMore |-> hasMore,
        count |-> Len(items)]

RECURSIVE pageThrough(_, _, _, _)
\* the pages a client gets that calls getAll with the limit, first without
\* cursor and then with each page's nextCursor, until hasMore is false
pageThrough(table, userId, limit, cursor) ==
    LET page == getAll(table, userId, limit, cursor)
    IN IF page.hasMore THEN <<page>> \o pageThrough(table, userId, limit, page.nextCursor)
       ELSE <<page>>

\* the ids on the pages, in the order the client receives them
RECURSIVE pagedIds(_)
pagedIds(pages) ==
    IF pages = <<>> THEN <<>>
    ELSE [i \in 1..Len(Head(pages).items) |-> Head(pages).items[i].id] \o pagedIds(Tail(pages))

PageLimits == {1, 2}

\* the key or pattern a cache call of the frame works on
frameKey(f) ==
    IF f.op \in {"get", "set", "del", "getOrSet", "delPattern"} THEN f.arg.key
    ELSE cacheKey(f.arg.userId, f.arg.id)

framePattern(f) ==
    IF f.op = "delPattern" THEN f.arg.key ELSE listPattern(f.arg.userId)

\* DEFAULT now() of created_at: an instant later than that of every row
\* the table holds
now(table) ==
    LET stamps == {r.createdAt : r \in table}
    IN IF stamps = {} THEN 1 ELSE 1 + CHOOSE s \in stamps : \A o \in stamps : o <= s

\* one await of a repository or cache method: the frame and the backend
\* after it.  Ids are handed out in increasing order when create is called
\* (uuidv7 in the server), created_at is stamped by the database when the
\* row is inserted, and an update stamps the instant after that.
todoStep(f, b) ==
    LET noop == b.kind = "noop"
        same == [f |-> f, b |-> b]
    IN CASE f.pc = "start" ->
              IF f.op = "create"
              THEN [f |-> [f EXCEPT !.pc = firstPc(f.op, b.kind), !.arg.id = b.nextTodo],
                    b |-> [b EXCEPT !.nextTodo = @ + 1]]
              ELSE [f |-> [f EXCEPT !.pc = firstPc(f.op, b.kind)], b |-> b]
         [] f.pc = "get" ->
              LET cached == cacheGet(b.kind, b.redis, frameKey(f), "get" \in f.faults)
              IN [f |-> IF f.op = "get" \/ cached # Null
                        THEN [End(f, cached) EXCEPT !.cached = cached]
                        ELSE [f EXCEPT !.pc = "compute"],
                  b |-> b]
         [] f.pc = "compute" ->
              IF f.op = "getById" /\ "db" \in f.faults
              THEN [f |-> Fail(f, "DatabaseError"), b |-> b]
              ELSE LET rows == ownedRows(b.todos, f.arg.id, f.arg.userId)
                       value == IF f.op = "getOrSet" THEN f.arg.value
                                ELSE IF rows = {} THEN Null
                                ELSE toResponse(CHOOSE r \in rows : TRUE)
                       g == [f EXCEPT !.value = value, !.fetches = @ + 1]
                   IN [f |-> IF noop THEN End(g, value) ELSE [g EXCEPT !.pc = "set"],
                       b |-> b]
         [] f.pc = "set" ->
              LET failed == "set" \in f.faults
                  value == IF f.op = "set" THEN f.arg.value ELSE f.value
                  ok == noop \/ ~failed
              IN [f |-> [End(f, IF f.op = "set" THEN Bool(ok) ELSE value)
                            EXCEPT !.stored = ~noop /\ ~failed],
                  b |-> [b EXCEPT !.redis = cacheSet(b.kind, @, frameKey(f), value,
                                                     f.arg.ttl, failed)]]
         [] f.pc = "insert" ->
              IF "db" \in f.faults THEN [f |-> Fail(f, "DatabaseError"), b |-> b]
              ELSE LET row == [id |-> f.arg.id, userId |-> f.arg.userId,
                               title |-> f.arg.data.title,
                               completed |-> IF f.arg.data.completed = NotSet THEN "false"
                                             ELSE f.arg.data.completed,
                               createdAt |-> now(b.todos), updatedAt |-> now(b.todos)]
                   IN [f |-> [f EXCEPT !.pc = "scan", !.value = toResponse(row),
                                       !.mutated = TRUE],
                       b |-> [b EXCEPT !.todos = @ \cup {row}]]
         [] f.pc = "update" ->
              IF "db" \in f.faults THEN [f |-> Fail(f, "DatabaseError"), b |-> b]
              ELSE LET rows == ownedRows(b.todos, f.arg.id, f.arg.userId)
                       old == CHOOSE r \in rows : TRUE
                       row == [old EXCEPT
                                 !.title = IF f.arg.data.title # NotSet
                                           THEN f.arg.data.title ELSE @,
                                 !.completed = IF f.arg.data.completed # NotSet
                                               THEN f.arg.data.completed ELSE @,
                                 !.updatedAt = old.createdAt + 1]
                   IN IF rows = {} THEN [f |-> End(f, Null), b |-> b]
                      ELSE [f |-> [f EXCEPT !.pc = "del", !.value = toResponse(row),
                                            !.mutated = TRUE],
                            b |-> [b EXCEPT !.todos = (@ \ rows) \cup {row}]]
         [] f.pc = "delete" ->
              IF "db" \in f.faults THEN [f |-> Fail(f, "DatabaseError"), b |-> b]
              ELSE LET rows == ownedRows(b.todos, f.arg.id, f.arg.userId)
                   IN IF rows = {} THEN [f |-> End(f, Bool(FALSE)), b |-> b]
                      ELSE [f |-> [f EXCEPT !.pc = "del", !.value = Bool(TRUE),
                                            !.mutated = TRUE],
                            b |-> [b EXCEPT !.todos = @ \ rows]]
         [] f.pc = "del" ->
              LET failed == "del" \in f.faults
                  key == frameKey(f)
                  gone == IF noop \/ failed \/ ~b.redis[key].held THEN {} ELSE {key}
                  g == [f EXCEPT !.removed = @ \cup gone]
              IN [f |-> IF f.op = "del" THEN End(g, Bool(noop \/ ~failed))
                        ELSE [g EXCEPT !.pc = "scan"],
                  b |-> [b EXCEPT !.redis = cacheDel(b.kind, @, {key}, failed)]]
         [] f.pc = "scan" ->
              IF noop
              THEN [f |-> End(f, IF f.op = "delPattern" THEN Num(0) ELSE f.value), b |-> b]
              ELSE IF "scan" \in f.faults
              THEN [f |-> [f EXCEPT !.pc = "hung", !.err = "uncaught stream error"],
                    b |-> b]
              ELSE [f |-> [f EXCEPT !.pc = "delKeys",
                                    !.keys = scanKeys(b.redis, framePattern(f))],
                    b |-> b]
         [] f.pc = "delKeys" ->
              LET failed == f.keys # {} /\ "delKeys" \in f.faults
                  gone == IF failed THEN {} ELSE {k \in f.keys : b.redis[k].held}
              IN [f |-> [End(f, IF f.op # "delPattern" THEN f.value
                                ELSE Num(IF failed THEN 0 ELSE Cardinality(f.keys)))
                            EXCEPT !.removed = @ \cup gone],
                  b |-> [b EXCEPT !.redis = cacheDel(b.kind, @, f.keys, failed)]]
         [] f.pc = "select" ->
              IF "db" \in f.faults THEN [f |-> Fail(f, "DatabaseError"), b |-> b]
              ELSE [f |-> End([f EXCEPT !.fetches = @ + 1],
                              getAll(b.todos, f.arg.userId, f.arg.limit, f.arg.cursor)),
                    b |-> b]
         [] OTHER -> same

RECURSIVE RunTodo(_, _)
\* the call run without interruption until it returns, throws or stops
RunTodo(f, b) ==
    IF TodoEnded(f) THEN [f |-> f, b |-> b]
    ELSE LET n == todoStep(f, b) IN RunTodo(n.f, n.b)

----------------------------------------------------------------------------
(* utils/transactions.ts *)

\* the awaited calls of withTransaction that can reject
TxAwaits == {"connect", "BEGIN", "COMMIT", "ROLLBACK"}

\* a call of withTransaction: its position, how its callback will settle,
\* which awaited calls will reject, the statements sent on the client,
\* how often the client was released, and how the call settled
TxFrame(callback, faults) ==
    [pc |-> "connect", callback |-> callback, faults |-> faults,
     acquired |-> FALSE, called |-> FALSE, log |-> <<>>, released |-> 0,
     caught |-> "", outcome |-> "", err |-> ""]

NoTx == [TxFrame("none", {}) EXCEPT !.pc = "idle"]

\* finally { client.release() } on the way out with a result
txReturn(f) == [f EXCEPT !.pc = "done", !.released = @ + 1, !.outcome = "returned"]

\* finally { client.release() } on the way out with an error
txThrow(f, err) ==
    [f EXCEPT !.pc = "done", !.released = @ + 1, !.outcome = "threw", !.err = err]

\* withTransaction from one await to the next
txStep(f) ==
    CASE f.pc = "connect" ->
            \* const client = await pool.connect(), outside the try
            IF "connect" \in f.faults
            THEN [f EXCEPT !.pc = "done", !.outcome = "threw", !.err = "connect"]
            ELSE [f EXCEPT !.pc = "begin", !.acquired = TRUE]
      [] f.pc = "begin" ->
            \* await client.query('BEGIN'), in the outer try only
            IF "BEGIN" \in f.faults
            THEN txThrow([f EXCEPT !.log = Append(@, "BEGIN")], "BEGIN")
            ELSE [f EXCEPT !.pc = "callback", !.log = Append(@, "BEGIN")]
      [] f.pc = "callback" ->
            \* const result = await callback(txDb)
            IF f.callback = "resolves"
            THEN [f EXCEPT !.pc = "commit", !.called = TRUE]
            ELSE [f EXCEPT !.pc = "rollback", !.called = TRUE, !.caught = "callback"]
      [] f.pc = "commit" ->
            \* await client.query('COMMIT'), inside the inner try
            IF "COMMIT" \in f.faults
            THEN [f EXCEPT !.pc = "rollback", !.log = Append(@, "COMMIT"),
                           !.caught = "COMMIT"]
            ELSE txReturn([f EXCEPT !.log = Append(@, "COMMIT")])
      [] f.pc = "rollback" ->
            \* catch (error) { await client.query('ROLLBACK'); throw error }
            IF "ROLLBACK" \in f.faults
            THEN txThrow([f EXCEPT !.log = Append(@, "ROLLBACK")], "ROLLBACK")
            ELSE txThrow([f EXCEPT !.log = Append(@, "ROLLBACK")], f.caught)
      [] OTHER -> f

----------------------------------------------------------------------------
(* Initial state: the server has been built, the table is empty *)

Procs == {1, 2}

NoKept == [jwt |-> NoToken, by |-> "none", spent |-> FALSE]
NoVres == [op |-> "none", token |-> NoToken, by |-> "none", res |-> Rejected("", "")]

\* the last repository or cache call that ended, with the entry its key had
\* before it, and what the same call would have returned over the no-op
\* cache and for an id that does not exist
NoTodoResult == [f |-> NoTodoFrame, dbSame |-> TRUE, cacheSame |-> TRUE, othersSame |-> TRUE,
                 was |-> NoEntry, noop |-> Null, asAbsent |-> Null]

Init ==
    /\ env \in ValidEnvs
    /\ csrfEnabled \in BOOLEAN
    /\ clock = 0
    /\ users = {}
    /\ nextId = 1
    /\ csrfSeq = 0
    /\ jar = EmptyJar
    /\ kept = NoKept
    /\ calls = [p \in Procs |-> NoFrame]
    /\ vres = NoVres
    /\ svc = NoFrame
    /\ req = NoRequest
    /\ resp = NoReply
    /\ todos = {}
    /\ nextTodo = 1
    /\ redis = EmptyStore
    /\ cacheKind = "noop"
    /\ tcalls = [p \in Procs |-> NoTodoFrame]
    /\ tres = NoTodoResult
    /\ tx = NoTx

TickCount(c) == (c \div REFRESH_TOKEN_TTL) + ((c % REFRESH_TOKEN_TTL) \div ACCESS_TOKEN_TTL)

\* d minutes pass; what the last call returned is no longer looked at
Advance(d) ==
    /\ TickCount(clock) < MaxTicks
    /\ clock' = clock + d
    /\ vres' = NoVres /\ svc' = NoFrame /\ req' = NoRequest /\ resp' = NoReply
    /\ UNCHANGED <<todoVars, txVars, env, csrfEnabled, users, nextId, csrfSeq, jar, kept, calls>>

\* an access-token lifetime or a refresh-token lifetime passes
Tick == \E d \in {ACCESS_TOKEN_TTL, REFRESH_TOKEN_TTL} : Advance(d)

\* a refresh-token lifetime passes: every token minted before is expired
Expire == Advance(REFRESH_TOKEN_TTL)

----------------------------------------------------------------------------
(* Token specification: the jwt plugin's decorators called directly *)

Claims == [sub : UserIds, email : EmailValues]

SignAccess ==
    \E c \in Claims :
        /\ kept' = [jwt |-> signAccessToken(c), by |-> "signAccessToken", spent |-> FALSE]
        /\ vres' = [op |-> "signAccessToken", token |-> kept'.jwt, by |-> "signAccessToken",
                    res |-> Rejected("", "")]
        /\ UNCHANGED <<todoVars, txVars, env, csrfEnabled, clock, users, nextId, csrfSeq, jar, calls, svc, req, resp>>

SignRefresh ==
    \E c \in Claims :
        /\ kept' = [jwt |-> signRefreshToken(c), by |-> "signRefreshToken", spent |-> FALSE]
        /\ vres' = [op |-> "signRefreshToken", token |-> kept'.jwt, by |-> "signRefreshToken",
                    res |-> Rejected("", "")]
        /\ UNCHANGED <<todoVars, txVars, env, csrfEnabled, clock, users, nextId, csrfSeq, jar, calls, svc, req, resp>>

VerifyAccess ==
    \E t \in {kept.jwt, Garbage} :
        /\ t.fmt # "absent"
        /\ vres' = [op |-> "authenticate", token |-> t,
                    by |-> IF t = kept.jwt THEN kept.by ELSE "none",
                    res |-> authenticate(t)]
        /\ UNCHANGED <<todoVars, txVars, env, csrfEnabled, clock, users, nextId, csrfSeq, jar, kept, calls, svc, req, resp>>

VerifyRefresh ==
    \E t \in {kept.jwt, Garbage} :
        /\ t.fmt # "absent"
        /\ vres' = [op |-> "verifyRefreshToken", token |-> t,
                    by |-> IF t = kept.jwt THEN kept.by ELSE "none",
                    res |-> verifyRefreshToken(t)]
        /\ UNCHANGED <<todoVars, txVars, env, csrfEnabled, clock, users, nextId, csrfSeq, jar, kept, calls, svc, req, resp>>

TokenNext == SignAccess \/ SignRefresh \/ VerifyAccess \/ VerifyRefresh \/ Tick

TokenSpec == Init /\ [][TokenNext]_vars

----------------------------------------------------------------------------
(* Main specification: the /v1/auth routes served one request at a time *)

RegisterBodies == [user_name : UserNames, email : EmailValues, password : {"pw1"}, salt : Salts]
Identifiers == EmailValues \cup UserNames

\* the request did not get past the onRequest hooks
Blocked(g) ==
    /\ req' = logged(g.r)
    /\ svc' = NoFrame
    /\ resp' = errorReply(g.out.err, g.out.msg, "onRequest")
    /\ UNCHANGED <<users, nextId, csrfSeq, jar, kept>>

\* a token-issuing handler answers for the service call that ended in f
Answer(r, f, okStatus) ==
    /\ f.pc = "done" => csrfSeq < MaxCsrf
    /\ req' = logged(r)
    /\ svc' = f
    /\ resp' = tokenReply(f, okStatus, csrfSeq + 1)
    /\ csrfSeq' = IF f.pc = "done" THEN csrfSeq + 1 ELSE csrfSeq
    /\ jar' = applyCookies(jar, resp')

\* POST /v1/auth/register -> registerHandler
RegisterReq ==
    \E data \in RegisterBodies :
        \E g \in {onRequest(clientRequest("POST", "/v1/auth/register", jar, TRUE, NoToken))},
           run \in {register([NoArg EXCEPT !.user_name = data.user_name, !.email = data.email,
                                          !.password = data.password, !.salt = data.salt],
                             [users |-> users, nextId |-> nextId])}
        :  /\ IF g.out.err # "" THEN Blocked(g)
              ELSE /\ run.f.pc = "done" => nextId <= MaxUsers
                   /\ Answer(g.r, run.f, 201)
                   /\ users' = run.db.users
                   /\ nextId' = run.db.nextId
                   /\ UNCHANGED kept
           /\ vres' = NoVres
           /\ UNCHANGED <<todoVars, txVars, env, csrfEnabled, clock, calls>>

\* POST /v1/auth/login -> loginHandler
LoginReq ==
    \E identifier \in Identifiers, password \in Passwords :
        \E g \in {onRequest(clientRequest("POST", "/v1/auth/login", jar, TRUE, NoToken))}
        :  /\ IF g.out.err # "" THEN Blocked(g)
              ELSE /\ Answer(g.r, login(identifier, password, users), 200)
                   /\ UNCHANGED <<users, nextId, kept>>
           /\ vres' = NoVres
           /\ UNCHANGED <<todoVars, txVars, env, csrfEnabled, clock, calls>>

\* POST /v1/auth/token -> issueTokenHandler
IssueTokenReq ==
    \E userId \in 1..(MaxUsers + 1) :
        \E g \in {onRequest(clientRequest("POST", "/v1/auth/token", jar, TRUE, NoToken))}
        :  /\ IF g.out.err # "" THEN Blocked(g)
              ELSE /\ Answer(g.r, issueTokens(userId, users), 200)
                   /\ UNCHANGED <<users, nextId, kept>>
           /\ vres' = NoVres
           /\ UNCHANGED <<todoVars, txVars, env, csrfEnabled, clock, calls>>

\* POST /v1/auth/refresh -> refreshHandler
RefreshReq ==
    \E body \in {NoToken, kept.jwt, jar.access_token, Garbage} :
        \E g \in {onRequest(clientRequest("POST", "/v1/auth/refresh", jar, TRUE, body))} :
        \* token = tokenFromBody || tokenFromCookie
        \E token \in {IF body # NoToken THEN body ELSE g.r.cookies.refresh_token} :
        \E r \in {[g.r EXCEPT !.reused = (token = kept.jwt /\ kept.spent)]},
           f \in {refreshTokens(token, users)}
        :  /\ IF g.out.err # "" THEN Blocked(g)
              ELSE IF token = NoToken
              THEN /\ req' = logged(r)
                   /\ svc' = NoFrame
                   /\ resp' = [NoReply EXCEPT !.status = 401, !.by = "handler",
                                              !.message = "Missing refresh token"]
                   /\ UNCHANGED <<users, nextId, csrfSeq, jar, kept>>
              ELSE /\ Answer(r, f, 200)
                   /\ kept' = IF f.pc = "done" /\ token = kept.jwt
                              THEN [kept EXCEPT !.spent = TRUE] ELSE kept
                   /\ UNCHANGED <<users, nextId>>
           /\ vres' = NoVres
           /\ UNCHANGED <<todoVars, txVars, env, csrfEnabled, clock, calls>>

\* POST /v1/auth/logout -> logoutHandler
LogoutReq ==
    \E g \in {onRequest(clientRequest("POST", "/v1/auth/logout", jar, TRUE, NoToken))}
    :      /\ IF g.out.err # "" THEN Blocked(g)
              ELSE /\ req' = logged(g.r)
                   /\ svc' = NoFrame
                   /\ resp' = logoutReply
                   /\ jar' = applyCookies(jar, resp')
                   /\ kept' = IF kept.jwt.fmt = "jwt" THEN [kept EXCEPT !.spent = TRUE] ELSE kept
                   /\ UNCHANGED <<users, nextId, csrfSeq>>
           /\ vres' = NoVres
           /\ UNCHANGED <<todoVars, txVars, env, csrfEnabled, clock, calls>>

\* GET /v1/auth/me with preValidation: [app.authenticate] -> meHandler
MeReq ==
    \E g \in {onRequest(clientRequest("GET", "/v1/auth/me", jar, FALSE, NoToken))} :
    \E v \in {authenticate(g.r.cookies.access_token)}
    :  /\ IF g.out.err # "" THEN Blocked(g)
          ELSE /\ req' = logged(g.r)
               /\ svc' = NoFrame
               /\ resp' = IF v.ok
                          THEN [NoReply EXCEPT !.status = 200, !.by = "handler", !.userSub = v.sub]
                          ELSE errorReply(v.err, v.msg, "preValidation")
               /\ UNCHANGED <<users, nextId, csrfSeq, jar, kept>>
       /\ vres' = [op |-> "authenticate", token |-> g.r.cookies.access_token, by |-> "cookie", res |-> v]
       /\ UNCHANGED <<todoVars, txVars, env, csrfEnabled, clock, calls>>

\* the client saves, once, a refresh token it was handed
KeepRefreshToken ==
    /\ jar.refresh_token # NoToken
    /\ kept = NoKept
    /\ kept' = [jwt |-> jar.refresh_token, by |-> "signRefreshToken", spent |-> FALSE]
    /\ UNCHANGED <<todoVars, txVars, env, csrfEnabled, clock, users, nextId, csrfSeq, jar, calls, vres, svc, req, resp>>

\* userRepository.delete(id)
DeleteUser ==
    \E u \in users :
        /\ users' = users \ {u}
        /\ vres' = NoVres /\ svc' = NoFrame /\ req' = NoRequest /\ resp' = NoReply
        /\ UNCHANGED <<todoVars, txVars, env, csrfEnabled, clock, nextId, csrfSeq, jar, kept, calls>>

Next ==
    \/ RegisterReq \/ LoginReq \/ IssueTokenReq \/ RefreshReq \/ LogoutReq \/ MeReq
    \/ KeepRefreshToken \/ DeleteUser \/ Expire

Spec == Init /\ [][Next]_vars

----------------------------------------------------------------------------
(* Refresh fault specification: refreshTokens called while the user store  *)
(* or the token signer may reject                                          *)

\* authService.refreshTokens(token) with the client's refresh token or a
\* string that is no token
RefreshCall ==
    \E token \in {jar.refresh_token, Garbage}, faults \in SUBSET {"lookup", "sign"} :
        /\ token # NoToken
        /\ svc' = refreshTokensUnder(token, users, faults)
        /\ vres' = NoVres
        /\ UNCHANGED <<todoVars, txVars, env, csrfEnabled, clock, users, nextId, csrfSeq, jar,
                       kept, calls, req, resp>>

RefreshFaultNext == RegisterReq \/ DeleteUser \/ Expire \/ RefreshCall

RefreshFaultSpec == Init /\ [][RefreshFaultNext]_vars

----------------------------------------------------------------------------
(* Race specification: register calls of concurrent requests, interleaved *)
(* at their awaits                                                         *)

RaceStart(p) ==
    \E data \in RegisterBodies :
        /\ calls[p].pc = "idle"
        /\ nextId <= MaxUsers
        /\ calls' = [calls EXCEPT ![p] =
                        Frame("register", [NoArg EXCEPT !.user_name = data.user_name,
                                                        !.email = data.email,
                                                        !.password = data.password,
                                                        !.salt = data.salt])]
        /\ UNCHANGED <<todoVars, txVars, env, csrfEnabled, clock, users, nextId, csrfSeq, jar, kept, vres, svc, req, resp>>

RaceStep(p) ==
    /\ calls[p].pc \notin {"idle", "done", "failed"}
    /\ LET s == registerStep(calls[p], [users |-> users, nextId |-> nextId])
       IN /\ calls' = [calls EXCEPT ![p] = s.f]
          /\ users' = s.db.users
          /\ nextId' = s.db.nextId
    /\ UNCHANGED <<todoVars, txVars, env, csrfEnabled, clock, csrfSeq, jar, kept, vres, svc, req, resp>>

\* the call's promise settles and the request slot is free again
RaceReturn(p) ==
    /\ Ended(calls[p])
    /\ svc' = calls[p]
    /\ calls' = [calls EXCEPT ![p] = NoFrame]
    /\ UNCHANGED <<todoVars, txVars, env, csrfEnabled, clock, users, nextId, csrfSeq, jar, kept, vres, req, resp>>

RaceNext == \E p \in Procs : RaceStart(p) \/ RaceStep(p) \/ RaceReturn(p)

RaceSpec == Init /\ [][RaceNext]_vars

----------------------------------------------------------------------------
(* Guard specification: arbitrary requests met by the onRequest hooks *)

Methods == {"GET", "HEAD", "OPTIONS", "POST", "PUT", "PATCH", "DELETE"}

\* "", "ab", "abc", "abd"
CsrfStrings == {<<>>, <<97, 98>>, <<97, 98, 99>>, <<97, 98, 100>>}

ProbeHeaders ==
    [xCsrfToken : {Undefined, <<>>, <<97, 98, 99>>, <<97, 98, 100>>},
     csrfToken : {Undefined, <<97, 98, 99>>},
     xXsrfToken : {Undefined, <<97, 98>>}]

\* any client sends any request to the idle server; a request the hooks let
\* through is handed to routing
Probe ==
    \E method \in Methods, url \in Urls, cookie \in CsrfStrings \cup {Undefined},
       headers \in ProbeHeaders :
        LET r == [clientRequest(method, url, [EmptyJar EXCEPT !.csrf_token = cookie],
                                FALSE, NoToken) EXCEPT !.headers = headers]
            g == onRequest(r)
        IN /\ req = NoRequest
           /\ req' = logged(g.r)
           /\ resp' = IF g.out.err # "" THEN errorReply(g.out.err, g.out.msg, "onRequest")
                      ELSE [NoReply EXCEPT !.by = "routing"]
           /\ UNCHANGED <<todoVars, txVars, env, csrfEnabled, clock, users, nextId, csrfSeq, jar, kept, calls, vres, svc>>

\* the reply has been sent; the server waits for the next request
Replied ==
    /\ req # NoRequest
    /\ req' = NoRequest
    /\ resp' = NoReply
    /\ UNCHANGED <<todoVars, txVars, env, csrfEnabled, clock, users, nextId, csrfSeq, jar, kept, calls, vres, svc>>

GuardNext == Probe \/ Replied

GuardSpec == Init /\ [][GuardNext]_vars

----------------------------------------------------------------------------
(* Hook specification: the CSRF hook called on requests whose cookies may *)
(* or may not have been parsed yet                                        *)

HookCall ==
    \E method \in Methods, url \in Urls, cookie \in CsrfStrings \cup {Undefined},
       headers \in ProbeHeaders, parsed \in BOOLEAN :
        LET sent == [clientRequest(method, url, [EmptyJar EXCEPT !.csrf_token = cookie],
                                   FALSE, NoToken) EXCEPT !.headers = headers]
            r == IF parsed THEN cookieHook(sent) ELSE sent
            out == csrfHook(r)
        IN /\ csrfEnabled
           /\ req = NoRequest
           /\ req' = logged(r)
           /\ resp' = IF out.err # "" THEN errorReply(out.err, out.msg, "onRequest")
                      ELSE [NoReply EXCEPT !.by = "routing"]
           /\ UNCHANGED <<todoVars, txVars, env, csrfEnabled, clock, users, nextId, csrfSeq, jar, kept, calls, vres, svc>>

HookNext == HookCall \/ Replied

HookSpec == Init /\ [][HookNext]_vars

----------------------------------------------------------------------------
(* Todo specification: the todo repository called one call at a time, over *)
(* the Redis cache or over the no-op cache                                 *)

\* the server has been built with either cache; the tables are empty
TodoInit ==
    /\ env \in {e \in ValidEnvs : e.JWT_ACCESS_SECRET # e.JWT_REFRESH_SECRET}
    /\ csrfEnabled = FALSE
    /\ clock = 0
    /\ users = {}
    /\ nextId = 1
    /\ csrfSeq = 0
    /\ jar = EmptyJar
    /\ kept = NoKept
    /\ calls = [p \in Procs |-> NoFrame]
    /\ vres = NoVres
    /\ svc = NoFrame
    /\ req = NoRequest
    /\ resp = NoReply
    /\ todos = {}
    /\ nextTodo = 1
    /\ redis = EmptyStore
    /\ cacheKind \in {"redis", "noop"}
    /\ tcalls = [p \in Procs |-> NoTodoFrame]
    /\ tres = NoTodoResult
    /\ tx = NoTx

\* the user who creates todos; the other user owns none
Creators == {1}

CreateData == {[title |-> "t1", completed |-> NotSet]}

UpdateData == {[title |-> "t2", completed |-> NotSet]}

\* the ids a caller can name: those the database has handed out so far
Issued == {id \in TodoIds : 0 < id /\ id < nextTodo}

\* the database call of the method rejects, or not
DbFaults == {{}, {"db"}}

\* the whole call, together with the same call over the no-op cache and the
\* same call for an id no row has
TodoCall(op, arg, faults) ==
    \E f \in {TodoFrame(op, arg, faults)} :
    \E r \in {RunTodo(f, Backend(todos, nextTodo, redis, cacheKind))} :
    \E n \in {IF cacheKind = "noop" THEN r
               ELSE RunTodo(f, Backend(todos, nextTodo, EmptyStore, "noop"))},
       a \in {IF op \in {"create", "getAll"} THEN r
               ELSE RunTodo([f EXCEPT !.arg.id = 0],
                            Backend(todos, nextTodo, redis, cacheKind))} :
       /\ tres = NoTodoResult
       /\ todos' = r.b.todos
       /\ nextTodo' = r.b.nextTodo
       /\ redis' = r.b.redis
       /\ tres' = [f |-> r.f,
                   dbSame |-> r.b.todos = todos,
                   cacheSame |-> r.b.redis = redis,
                   othersSame |-> \A k \in CacheKeys :
                                     k[2] # f.arg.userId => r.b.redis[k] = redis[k],
                   was |-> IF frameKey(f) \in CacheKeys THEN redis[frameKey(f)] ELSE NoEntry,
                   noop |-> IF n.b.todos = r.b.todos /\ n.f.pc = r.f.pc THEN n.f.result
                            ELSE [type |-> "diverged"],
                   asAbsent |-> a.f.result]
       /\ UNCHANGED <<authVars, txVars, cacheKind, tcalls>>

TodoCreate ==
    \E u \in Creators, data \in CreateData, faults \in DbFaults :
        /\ nextTodo <= MaxTodos
        /\ TodoCall("create", [NoTodoArg EXCEPT !.userId = u, !.data = data], faults)

TodoGetById ==
    \E u \in TodoOwners, id \in Issued :
        TodoCall("getById", [NoTodoArg EXCEPT !.userId = u, !.id = id, !.ttl = DefaultTtl],
                 {})

TodoGetAll ==
    \E u \in TodoOwners, limit \in {0, 1}, cursor \in {0, 2} :
        TodoCall("getAll", [NoTodoArg EXCEPT !.userId = u, !.limit = limit,
                                             !.cursor = cursor], {})

TodoUpdate ==
    \E u \in TodoOwners, id \in Issued, data \in UpdateData, faults \in DbFaults :
        TodoCall("update", [NoTodoArg EXCEPT !.userId = u, !.id = id, !.data = data], faults)

TodoDelete ==
    \E u \in TodoOwners, id \in Issued, faults \in DbFaults :
        TodoCall("delete", [NoTodoArg EXCEPT !.userId = u, !.id = id], faults)

\* the TTL of a key runs out
Evict ==
    \E k \in CacheKeys :
        /\ tres = NoTodoResult
        /\ redis[k].held
        /\ redis' = [redis EXCEPT ![k] = NoEntry]
        /\ UNCHANGED <<authVars, txVars, todos, nextTodo, cacheKind, tcalls, tres>>

\* the caller has taken the result; the repository waits for the next call
TodoReturn ==
    /\ tres # NoTodoResult
    /\ tres' = NoTodoResult
    /\ UNCHANGED <<authVars, txVars, todos, nextTodo, redis, cacheKind, tcalls>>

TodoNext ==
    TodoCreate \/ TodoGetById \/ TodoGetAll \/ TodoUpdate \/ TodoDelete \/ Evict
    \/ TodoReturn

TodoSpec == TodoInit /\ [][TodoNext]_vars

----------------------------------------------------------------------------
(* Cache specification: the facade's operations called one after another   *)
(* on a store that answers every call                                      *)

FacadeKeys == {cacheKey(1, 1), cacheKey(1, 2), cacheKey(2, 1)}

\* what a caller stores or a fetcher returns: null, a falsy value, a row
FacadeValues ==
    {Null, Num(0),
     toResponse([id |-> 1, userId |-> 1, title |-> "t1", completed |-> "false",
                 createdAt |-> 1, updatedAt |-> 1])}

\* ttlSeconds; 0: the argument is left out
FacadeTtls == {0, 60}

FacadeGet ==
    \E k \in FacadeKeys :
        TodoCall("get", [NoTodoArg EXCEPT !.key = k], {})

FacadeSet ==
    \E k \in FacadeKeys, v \in FacadeValues, ttl \in FacadeTtls :
        TodoCall("set", [NoTodoArg EXCEPT !.key = k, !.value = v, !.ttl = ttl], {})

FacadeDel ==
    \E k \in FacadeKeys :
        TodoCall("del", [NoTodoArg EXCEPT !.key = k], {})

FacadeDelPattern ==
    \E u \in TodoOwners :
        TodoCall("delPattern", [NoTodoArg EXCEPT !.key = listPattern(u)], {})

\* v: what the fetcher resolves to
FacadeGetOrSet ==
    \E k \in FacadeKeys, v \in FacadeValues, ttl \in FacadeTtls :
        TodoCall("getOrSet", [NoTodoArg EXCEPT !.key = k, !.value = v, !.ttl = ttl], {})

CacheNext ==
    FacadeGet \/ FacadeSet \/ FacadeDel \/ FacadeDelPattern \/ FacadeGetOrSet
    \/ Evict \/ TodoReturn

CacheSpec == TodoInit /\ [][CacheNext]_vars

----------------------------------------------------------------------------
(* Fault specification: calls one after another while Redis rejects some   *)
(* of the commands sent to it                                              *)

\* the Redis commands of an invalidation that reject: DEL key, SCAN, DEL keys
InvalidationFaults == (SUBSET {"del", "scan", "delKeys"}) \ {{}}

\* a key no repository call reads, and the values stored under it
FaultKeys == {cacheKey(1, 0)}

FaultValues == {Null, Num(0)}

FaultyGet ==
    \E k \in FaultKeys :
        TodoCall("get", [NoTodoArg EXCEPT !.key = k], {"get"})

FaultySet ==
    \E k \in FaultKeys, v \in FaultValues :
        TodoCall("set", [NoTodoArg EXCEPT !.key = k, !.value = v], {"set"})

FaultyDel ==
    \E k \in FaultKeys :
        TodoCall("del", [NoTodoArg EXCEPT !.key = k], {"del"})

FaultyDelPattern ==
    \E u \in TodoOwners, faults \in {{"scan"}, {"delKeys"}} :
        TodoCall("delPattern", [NoTodoArg EXCEPT !.key = listPattern(u)], faults)

FaultyGetOrSet ==
    \E k \in FaultKeys, v \in FaultValues, faults \in {{"get"}, {"set"}, {"get", "set"}} :
        TodoCall("getOrSet", [NoTodoArg EXCEPT !.key = k, !.value = v], faults)

FaultyUpdate ==
    \E u \in TodoOwners, id \in Issued, data \in UpdateData, faults \in InvalidationFaults :
        TodoCall("update", [NoTodoArg EXCEPT !.userId = u, !.id = id, !.data = data], faults)

FaultyDelete ==
    \E u \in TodoOwners, id \in Issued, faults \in InvalidationFaults :
        TodoCall("delete", [NoTodoArg EXCEPT !.userId = u, !.id = id], faults)

FaultNext ==
    FaultyGet \/ FaultySet \/ FaultyDel \/ FaultyDelPattern \/ FaultyGetOrSet
    \/ FaultyUpdate \/ FaultyDelete
    \/ TodoCreate \/ TodoGetById \/ TodoReturn

FaultSpec == TodoInit /\ [][FaultNext]_vars

----------------------------------------------------------------------------
(* Todo race specification: repository calls of one user interleaved at   *)
(* their awaits                                                           *)

\* no other call is in flight
Quiet(p) == \A q \in Procs \ {p} : tcalls[q].pc = "idle" \/ TodoEnded(tcalls[q])

\* the id is known outside its create call: the row has been inserted
Visible(id) ==
    \A q \in Procs :
        ~(tcalls[q].op = "create" /\ tcalls[q].arg.id = id /\ ~tcalls[q].mutated
          /\ ~TodoEnded(tcalls[q]))

\* a call starts and runs up to its first await; alone: no other call has
\* been in flight since it started
TodoRaceStart(p) ==
    \E op \in {"create", "getById", "update", "delete"}, id \in Issued \cup {0} :
        LET arg == [NoTodoArg EXCEPT
                      !.userId = CHOOSE u \in Creators : TRUE,
                      !.id = IF op = "create" THEN 0 ELSE id,
                      !.ttl = IF op = "getById" THEN DefaultTtl ELSE 0,
                      !.data = IF op = "create" THEN CHOOSE d \in CreateData : TRUE
                               ELSE IF op = "update" THEN CHOOSE d \in UpdateData : TRUE
                               ELSE NoData]
        IN /\ tcalls[p].pc = "idle"
           /\ (op = "create") = (id = 0)
           /\ op = "create" => nextTodo <= MaxTodos
           /\ op # "create" => Visible(id)
           /\ \E n \in {todoStep(TodoFrame(op, arg, {}),
                                  Backend(todos, nextTodo, redis, cacheKind))} :
                 /\ tcalls' = [q \in Procs |->
                                 IF q = p THEN [n.f EXCEPT !.alone = Quiet(p)]
                                 ELSE [tcalls[q] EXCEPT !.alone = FALSE]]
                 /\ nextTodo' = n.b.nextTodo
           /\ UNCHANGED <<authVars, txVars, todos, redis, cacheKind, tres>>

\* the call runs up to its next await
TodoRaceStep(p) ==
    /\ tcalls[p].pc # "idle"
    /\ ~TodoEnded(tcalls[p])
    /\ \E n \in {todoStep(tcalls[p], Backend(todos, nextTodo, redis, cacheKind))} :
          /\ tcalls' = [tcalls EXCEPT ![p] = n.f]
          /\ todos' = n.b.todos
          /\ nextTodo' = n.b.nextTodo
          /\ redis' = n.b.redis
    /\ UNCHANGED <<authVars, txVars, cacheKind, tres>>

\* the caller takes the result
TodoRaceReturn(p) ==
    /\ TodoEnded(tcalls[p])
    /\ tcalls' = [tcalls EXCEPT ![p] = NoTodoFrame]
    /\ UNCHANGED <<authVars, txVars, todos, nextTodo, redis, cacheKind, tres>>

TodoRaceNext == \E p \in Procs : TodoRaceStart(p) \/ TodoRaceStep(p) \/ TodoRaceReturn(p)

TodoRaceSpec == TodoInit /\ [][TodoRaceNext]_vars

----------------------------------------------------------------------------
(* Transaction specification: calls of withTransaction, one at a time,     *)
(* with every combination of rejecting awaits                              *)

\* a caller calls withTransaction(pool, callback)
TxCall ==
    \E callback \in {"resolves", "throws"}, faults \in SUBSET TxAwaits :
        /\ tx.pc = "idle"
        /\ tx' = TxFrame(callback, faults)
        /\ UNCHANGED <<authVars, todoVars>>

\* the call runs up to its next await, or settles
TxStep ==
    /\ tx.pc \notin {"idle", "done"}
    /\ tx' = txStep(tx)
    /\ UNCHANGED <<authVars, todoVars>>

\* the caller has the result or the error
TxReturn ==
    /\ tx.pc = "done"
    /\ tx' = NoTx
    /\ UNCHANGED <<authVars, todoVars>>

TxNext == TxCall \/ TxStep \/ TxReturn

TxSpec == TodoInit /\ [][TxNext]_vars

----------------------------------------------------------------------------
(* Properties *)

(* C1: a token minted by signAccessToken is rejected by verifyRefreshToken *)
(* and a token minted by signRefreshToken is rejected by authenticate, in  *)
(* every environment the validation admits.                                *)
C1_NoCrossAccept ==
    /\ (vres.op = "verifyRefreshToken" /\ vres.by = "signAccessToken") => ~vres.res.ok
    /\ (vres.op = "authenticate" /\ vres.by = "signRefreshToken") => ~vres.res.ok

(* C2: the access verifier returns the signed subject at every time before *)
(* the token's expiry and fails at every time after ACCESS_TOKEN_TTL has   *)
(* elapsed since signing.                                                  *)
C2_AccessRoundTrip ==
    (vres.op = "authenticate" /\ vres.by = "signAccessToken") =>
        /\ clock < vres.token.iat + ACCESS_TOKEN_TTL =>
              (vres.res.ok /\ vres.res.sub = vres.token.sub)
        /\ clock > vres.token.iat + ACCESS_TOKEN_TTL => ~vres.res.ok

C2_Witness ==
    /\ vres.op = "authenticate"
    /\ vres.by = "signAccessToken"
    /\ clock > vres.token.iat + ACCESS_TOKEN_TTL
    /\ ~vres.res.ok

\* the presented token carries a valid signature under the refresh secret
\* and is not expired
RefreshTokenValid(t) ==
    t.fmt = "jwt" /\ t.key = env.JWT_REFRESH_SECRET /\ clock < t.exp

(* C3: refreshTokens(t) with a t that fails verification ends with         *)
(* UnauthorizedError('Invalid refresh token'), no user lookup and no token *)
(* signed; with a t that verifies but whose subject is no stored user it   *)
(* ends with NotFoundError('User not found') and no token signed.          *)
C3_RefreshFailures ==
    svc.op = "refreshTokens" =>
        /\ ~RefreshTokenValid(svc.arg.token) =>
              /\ svc.pc = "failed"
              /\ svc.err = "UnauthorizedError" /\ svc.msg = "Invalid refresh token"
              /\ svc.lookups = 0 /\ svc.signs = 0
              /\ svc.accessToken = NoToken /\ svc.refreshToken = NoToken
        /\ (RefreshTokenValid(svc.arg.token)
              /\ ~\E u \in users : u.id = svc.arg.token.sub) =>
              /\ svc.pc = "failed"
              /\ svc.err = "NotFoundError" /\ svc.msg = "User not found"
              /\ svc.signs = 0
              /\ svc.accessToken = NoToken /\ svc.refreshToken = NoToken

C3_Witness ==
    /\ svc.op = "refreshTokens"
    /\ RefreshTokenValid(svc.arg.token)
    /\ ~\E u \in users : u.id = svc.arg.token.sub
    /\ svc.err = "NotFoundError"

(* C4: a refresh token that was already redeemed by a successful           *)
(* refreshTokens, or that was held when logout answered, still refreshes   *)
(* as long as it is unexpired and its subject user exists.                 *)
C4_NoRevocation ==
    (/\ svc.op = "refreshTokens"
     /\ req.reused
     /\ kept.by = "signRefreshToken"
     /\ clock < svc.arg.token.exp
     /\ \E u \in users : u.id = svc.arg.token.sub) =>
        /\ svc.pc = "done"
        /\ resp.status = 200
        /\ resp.refreshToken.fmt = "jwt"

C4_Witness ==
    /\ svc.op = "refreshTokens"
    /\ req.reused
    /\ svc.arg.token = kept.jwt
    /\ svc.pc = "done"
    /\ resp.status = 200

(* C5: a login that fails, for an unknown identifier or for a wrong        *)
(* password, ends with UnauthorizedError('Invalid credentials') and the    *)
(* same reply.                                                             *)
C5_LoginUniform ==
    (svc.op = "login" /\ svc.pc = "failed") =>
        /\ svc.err = "UnauthorizedError"
        /\ svc.msg = "Invalid credentials"
        /\ resp.status = 401
        /\ resp.message = "Invalid credentials"
        /\ resp.setAccess = NoToken /\ resp.setRefresh = NoToken
        /\ resp.setCsrf = Undefined

StoredUnder(identifier) ==
    \E u \in users : u.email = identifier \/ u.user_name = identifier

C5_Witness ==
    /\ svc.op = "login"
    /\ svc.pc = "failed"
    /\ StoredUnder(svc.arg.identifier)
    /\ \E other \in Identifiers : ~StoredUnder(other)

(* C6: register reports a taken email before a taken username, and in both *)
(* cases hashes no password, creates no user and signs no token.           *)
C6_RegisterOrder ==
    svc.op = "register" =>
        LET others == users \ {svc.user}
            emailTaken == \E u \in others : u.email = svc.arg.email
            nameTaken == \E u \in others : u.user_name = svc.arg.user_name
            nothingDone == /\ svc.hashes = 0 /\ svc.creates = 0 /\ svc.signs = 0
                           /\ svc.hashed = NoHash
                           /\ svc.accessToken = NoToken /\ svc.refreshToken = NoToken
        IN /\ emailTaken =>
                /\ svc.pc = "failed"
                /\ svc.err = "ValidationError" /\ svc.msg = "Email already exists"
                /\ svc.lookups = 1
                /\ nothingDone
           /\ (~emailTaken /\ nameTaken) =>
                /\ svc.pc = "failed"
                /\ svc.err = "ValidationError" /\ svc.msg = "Username already exists"
                /\ svc.lookups = 2
                /\ nothingDone

C6_Witness ==
    /\ svc.op = "register"
    /\ svc.pc = "failed"
    /\ \E u \in users : u.email = svc.arg.email
    /\ \E u \in users : u.user_name = svc.arg.user_name
    /\ svc.msg = "Email already exists"

C8_IssueTokens ==
    svc.op = "issueTokens" =>
        IF ~\E u \in users : u.id = svc.arg.userId
        THEN /\ svc.pc = "failed"
             /\ svc.err = "NotFoundError" /\ svc.msg = "User not found"
             /\ svc.signs = 0
             /\ svc.accessToken = NoToken /\ svc.refreshToken = NoToken
        ELSE \E u \in users :
                /\ u.id = svc.arg.userId
                /\ svc.pc = "done"
                /\ svc.signs = 2
                /\ svc.accessToken.fmt = "jwt" /\ svc.refreshToken.fmt = "jwt"
                /\ svc.accessToken.key = env.JWT_ACCESS_SECRET
                /\ svc.refreshToken.key = env.JWT_REFRESH_SECRET
                /\ svc.accessToken.sub = u.id /\ svc.accessToken.email = u.email
                /\ svc.refreshToken.sub = u.id /\ svc.refreshToken.email = u.email

C8_Witness ==
    /\ svc.op = "issueTokens"
    /\ svc.pc = "done"
    /\ \E u \in users : u.id = svc.arg.userId /\ svc.accessToken.email = u.email

(* C9: with CSRF protection enabled, a request with a non-safe method to a *)
(* non-exempt path passes the guard iff the csrf_token cookie and the CSRF *)
(* header are both present and equal; a missing one is answered 'CSRF      *)
(* token required', differing ones 'Invalid CSRF token'; a safe-method     *)
(* request always passes.                                                  *)
C9_CsrfGate ==
    (csrfEnabled /\ req.method # "") =>
        LET c == req.cookieHeader.csrf_token
            h == csrfTokenFromHeader(req)
            allowed == resp.by # "onRequest"
            exempt == \E prefix \in {"/health", "/docs", "/internal"} :
                          startsWith(req.url, prefix)
        IN IF req.method \in safeMethods THEN allowed
           ELSE exempt \/
                /\ allowed <=> (~Falsy(c) /\ ~Falsy(h) /\ c = h)
                /\ (Falsy(c) \/ Falsy(h)) =>
                      (resp.status = 401 /\ resp.message = "CSRF token required")
                /\ (~Falsy(c) /\ ~Falsy(h) /\ c # h) =>
                      (resp.status = 401 /\ resp.message = "Invalid CSRF token")

toTodoResponseDTOOrNull(v) == IF v = Null THEN Null ELSE toTodoResponseDTO(v)

\* the database's current answer for the todo as its owner's request sees it
Current(id, userId) ==
    LET rows == ownedRows(todos, id, userId)
    IN IF rows = {} THEN Null ELSE toResponse(CHOOSE r \in rows : TRUE)

(* C12: getById, update and delete by a user on a todo another user owns   *)
(* return what they return for an id no row has (null, null, false) and    *)
(* leave the table unchanged, also while the todo is cached for its owner; *)
(* every cache entry under a user's key holds a todo that user owns.       *)
C12_TenantIsolation ==
    /\ (/\ tres.f.op \in {"getById", "update", "delete"}
        /\ tres.f.faults = {}
        /\ \E t \in todos : t.id = tres.f.arg.id /\ t.userId # tres.f.arg.userId) =>
          /\ tres.f.pc = "done"
          /\ tres.f.result = tres.asAbsent
          /\ tres.f.result = IF tres.f.op = "delete" THEN Bool(FALSE) ELSE Null
          /\ tres.dbSame
    /\ \A k \in CacheKeys :
          (redis[k].held /\ redis[k].json # Null) =>
              \E t \in todos : t.userId = k[2] /\ t.id = k[3] /\ redis[k].json.id = t.id

C12_Witness ==
    /\ tres.f.op = "getById"
    /\ tres.f.pc = "done"
    /\ \E t \in todos :
          /\ t.id = tres.f.arg.id
          /\ t.userId # tres.f.arg.userId
          /\ redis[cacheKey(t.userId, t.id)].held
          /\ redis[cacheKey(t.userId, t.id)].json # Null

(* C13: a getById that starts once every write has finished its cache      *)
(* invalidation, and runs with no other call in flight, returns the        *)
(* database's current value of the todo.                                   *)
C13_FreshAfterInvalidation ==
    \A p \in Procs :
        (tcalls[p].op = "getById" /\ tcalls[p].pc = "done" /\ tcalls[p].alone) =>
            jsonRoundTrip(tcalls[p].result)
                = jsonRoundTrip(Current(tcalls[p].arg.id, tcalls[p].arg.userId))

(* C14: when a create, update or delete by a user has changed the table    *)
(* and returned, the Redis cache holds no key matching todo:<user>:*.      *)
C14_InvalidateAfterWrite ==
    (/\ tres.f.op \in {"create", "update", "delete"}
     /\ tres.f.pc = "done"
     /\ tres.f.mutated) =>
        \A k \in CacheKeys :
            matches(k, listPattern(tres.f.arg.userId)) => ~redis[k].held

C14_Witness ==
    /\ tres.f.op = "update"
    /\ tres.f.pc = "done"
    /\ tres.f.mutated
    /\ cacheKind = "redis"
    /\ Cardinality(tres.f.removed) >= 2

(* C15: a create, update or delete whose database call threw, and an       *)
(* update or delete that matched no row of the user, deletes no cache key  *)
(* and leaves the cache and the table as they were.                        *)
C15_InvalidateOnlyAfterCommit ==
    (/\ tres.f.op \in {"create", "update", "delete"}
     /\ \/ tres.f.pc = "failed"
        \/ /\ tres.f.pc = "done"
           /\ tres.f.op # "create"
           /\ tres.f.result = IF tres.f.op = "delete" THEN Bool(FALSE) ELSE Null) =>
        /\ tres.cacheSame
        /\ tres.dbSame
        /\ tres.f.removed = {}

C15_Witness ==
    /\ tres.f.op \in {"update", "delete"}
    /\ tres.f.pc = "failed"
    /\ tres.f.err = "DatabaseError"
    /\ cacheKind = "redis"
    /\ ownedRows(todos, tres.f.arg.id, tres.f.arg.userId) # {}
    /\ redis[cacheKey(tres.f.arg.userId, tres.f.arg.id)].held

\* the entry SETEX leaves for the value and ttlSeconds of a call
Stored(value, ttlSeconds) ==
    [held |-> TRUE, json |-> jsonRoundTrip(value),
     ttl |-> IF ttlSeconds # 0 THEN ttlSeconds ELSE DefaultTtl]

(* C16: getOrSet on a key holding a non-null value returns that value,     *)
(* does not call the fetcher and leaves the store alone; on a key holding  *)
(* nothing it calls the fetcher once, returns the fetcher's result and     *)
(* leaves it stored under the key with the given TTL (the default TTL when  *)
(* none is given).                                                         *)
C16_GetOrSet ==
    (/\ tres.f.op = "getOrSet"
     /\ cacheKind = "redis") =>
        /\ tres.f.pc = "done"
        /\ (tres.was.held /\ tres.was.json # Null) =>
              /\ tres.f.result = tres.was.json
              /\ tres.f.fetches = 0
              /\ tres.cacheSame
        /\ ~tres.was.held =>
              /\ tres.f.fetches = 1
              /\ tres.f.result = tres.f.arg.value
              /\ redis[tres.f.arg.key] = Stored(tres.f.arg.value, tres.f.arg.ttl)

C16_Witness ==
    /\ tres.f.op = "getOrSet"
    /\ cacheKind = "redis"
    /\ tres.was.held
    /\ tres.was.json.type = "object"
    /\ tres.f.arg.value # tres.was.json
    /\ tres.f.result = tres.was.json

(* C17 as stated: after a getOrSet whose fetcher returned null the store    *)
(* holds nothing under the key, and a getOrSet on a key holding nothing    *)
(* calls the fetcher.                                                      *)
C17_NullNeverStored ==
    (/\ tres.f.op = "getOrSet"
     /\ cacheKind = "redis"
     /\ tres.f.pc = "done") =>
        /\ (tres.f.fetches = 1 /\ tres.f.arg.value = Null) => ~redis[tres.f.arg.key].held
        /\ ~tres.was.held => tres.f.fetches = 1

(* C17 amended: a null from the fetcher is written to the store like any    *)
(* other value (the JSON text null, with the TTL), and a getOrSet that      *)
(* finds a stored null treats it as a miss: it calls the fetcher once,     *)
(* returns the fetcher's result and stores it.                             *)
C17_StoredNullIsMiss ==
    (/\ tres.f.op = "getOrSet"
     /\ cacheKind = "redis"
     /\ tres.f.pc = "done") =>
        /\ (tres.f.fetches = 1 /\ tres.f.arg.value = Null) =>
              /\ tres.f.result = Null
              /\ redis[tres.f.arg.key] = Stored(Null, tres.f.arg.ttl)
        /\ (tres.was.held /\ tres.was.json = Null) =>
              /\ tres.f.fetches = 1
              /\ tres.f.result = tres.f.arg.value
              /\ redis[tres.f.arg.key] = Stored(tres.f.arg.value, tres.f.arg.ttl)

C17_Witness ==
    /\ tres.f.op = "getOrSet"
    /\ cacheKind = "redis"
    /\ tres.f.pc = "done"
    /\ tres.was.held
    /\ tres.was.json = Null
    /\ tres.f.arg.value = Null
    /\ tres.f.fetches = 1
    /\ redis[tres.f.arg.key].held

(* C18: every repository call, in any sequence of calls without            *)
(* concurrency, returns over the Redis cache the result the same call      *)
(* returns over the no-op cache, and ends the same way.                    *)
C18_CacheTransparent ==
    tres.f.op \in {"create", "getById", "getAll", "update", "delete"} =>
        tres.f.result = tres.noop

C20_FreshAfterFailedInvalidation ==
    (/\ tres.f.op = "getById"
     /\ tres.f.pc = "done") =>
        toTodoResponseDTOOrNull(tres.f.result)
            = toTodoResponseDTOOrNull(Current(tres.f.arg.id, tres.f.arg.userId))

(* C21: the value register, login, issueTokens and refreshTokens return    *)
(* carries a user made of id, user name and email only: no password hash.  *)
C21_ResultWithoutPasswordHash ==
    (svc.op \in {"register", "login", "issueTokens", "refreshTokens"} /\ svc.pc = "done") =>
        DOMAIN TokenPairResult(svc).user = {"id", "user_name", "email"}

(* C22: a login with the user name of a registered user and that user's    *)
(* password succeeds, and the tokens it returns name that user.            *)
C22_LoginByOwnUserName ==
    \A u \in users :
        (/\ svc.op = "login"
         /\ svc.arg.identifier = u.user_name
         /\ comparePassword(svc.arg.password, u.password)) =>
            /\ svc.pc = "done"
            /\ svc.accessToken.sub = u.id
            /\ svc.refreshToken.sub = u.id

(* C23: a getById answered from the cache returns exactly the value a      *)
(* read of the database returns for the stored todo at that moment.        *)
C23_HitEqualsDatabaseRead ==
    (/\ tres.f.op = "getById"
     /\ tres.f.pc = "done"
     /\ tres.f.fetches = 0
     /\ tres.was.held
     /\ ownedRows(todos, tres.f.arg.id, tres.f.arg.userId) # {}) =>
        tres.f.result = Current(tres.f.arg.id, tres.f.arg.userId)

(* C24: paging through getAll from no cursor until hasMore is false gives  *)
(* pages of at most limit items that together hold every todo of the user  *)
(* exactly once, also for todos created by concurrent requests.            *)
C24_PagingReturnsAllOnce ==
    \A u \in TodoOwners, limit \in PageLimits :
        LET pages == pageThrough(todos, u, limit, 0)
            ids == pagedIds(pages)
        IN /\ \A i \in 1..Len(pages) : Len(pages[i].items) <= limit
           /\ {ids[i] : i \in 1..Len(ids)} = {r.id : r \in {r \in todos : r.userId = u}}
           /\ \A i, j \in 1..Len(ids) : ids[i] = ids[j] => i = j

\* how many times the statement was sent on the client
Sent(f, statement) == Cardinality({i \in 1..Len(f.log) : f.log[i] = statement})

(* C25: a withTransaction call whose callback ran releases the client      *)
(* exactly once and sends exactly one of COMMIT and ROLLBACK: COMMIT if and *)
(* only if the callback resolved, ROLLBACK if and only if it threw, and     *)
(* then the call throws the callback's own error.                          *)
C25_OneEndOneRelease ==
    (tx.pc = "done" /\ tx.called) =>
        /\ tx.released = 1
        /\ Sent(tx, "COMMIT") + Sent(tx, "ROLLBACK") = 1
        /\ Sent(tx, "COMMIT") = 1 <=> tx.callback = "resolves"
        /\ Sent(tx, "ROLLBACK") = 1 <=> tx.callback = "throws"
        /\ tx.callback = "throws" => (tx.outcome = "threw" /\ tx.err = "callback")

(* C26: with CSRF protection enabled, the register or login request of a   *)
(* client that holds no cookie yet is not rejected by the onRequest hooks:  *)
(* it reaches its handler.                                                  *)
C26_FirstRequestPassesCsrf ==
    (/\ csrfEnabled
     /\ req.method = "POST"
     /\ req.url \in {"/v1/auth/register", "/v1/auth/login"}
     /\ req.cookieHeader.csrf_token = Undefined) =>
        resp.by = "handler"

(* C27: constantTimeEquals(a, b) is true exactly when a and b are the same  *)
(* string; it reads no position when the lengths differ and every position  *)
(* when they are equal, whether or not the strings differ.                  *)
C27_ConstantTimeEquals ==
    /\ \A a, b \in CsrfStrings :
          /\ constantTimeEquals(a, b) <=> a = b
          /\ inspected(a, b) = IF Len(a) = Len(b) THEN Len(a) ELSE 0
    /\ (/\ req.cookies.parsed
        /\ ~Falsy(csrfTokenFromCookie(req))
        /\ ~Falsy(csrfTokenFromHeader(req))) =>
          LET a == csrfTokenFromCookie(req)
              b == csrfTokenFromHeader(req)
          IN /\ constantTimeEquals(a, b) <=> a = b
             /\ resp.message = "Invalid CSRF token" <=>
                   (a # b /\ req.method \notin safeMethods /\ resp.by = "onRequest")
             /\ inspected(a, b) = IF Len(a) = Len(b) THEN Len(a) ELSE 0

C27_Witness ==
    /\ req.cookies.parsed
    /\ csrfTokenFromCookie(req) = <<97, 98, 99>>
    /\ csrfTokenFromHeader(req) = <<97, 98, 100>>
    /\ resp.message = "Invalid CSRF token"
    /\ inspected(csrfTokenFromCookie(req), csrfTokenFromHeader(req)) = 3

(* C28: refreshTokens ends with UnauthorizedError('Invalid refresh token')  *)
(* only for a token that fails verification; when the token verifies and   *)
(* the user lookup or the signing fails, the error is another one.         *)
C28_UnauthorizedOnlyForBadToken ==
    (/\ svc.op = "refreshTokens"
     /\ svc.err = "UnauthorizedError"
     /\ svc.msg = "Invalid refresh token") =>
        ~RefreshTokenValid(svc.arg.token)

(* C29: a create, update or delete by a user removes only keys of the form *)
(* todo:<that user>:... and leaves the entry under every key of every      *)
(* other user as it was.                                                   *)
C29_WriteKeepsOthersEntries ==
    tres.f.op \in {"create", "update", "delete"} =>
        /\ tres.othersSame
        /\ \A k \in tres.f.removed : k[1] = "todo" /\ k[2] = tres.f.arg.userId

C29_Witness ==
    /\ tres.f.op \in {"update", "delete"}
    /\ tres.f.pc = "done"
    /\ tres.f.removed # {}
    /\ cacheKind = "redis"
    /\ \E k \in CacheKeys : k[2] # tres.f.arg.userId /\ redis[k].held

(* C30: a delPattern returns to its caller whatever Redis command rejects, *)
(* and so does a create, update or delete whose statement changed the      *)
(* table: none of them stops at an await that never settles.               *)
C30_WriteAnswersCaller ==
    (\/ tres.f.op = "delPattern"
     \/ tres.f.op \in {"create", "update", "delete"} /\ tres.f.mutated) =>
        tres.f.pc = "done"
====
